---- MODULE Spec2Model ----
(***************************************************************************)
(* Model of src/lib/components/chat/Messages/Markdown/MarkdownTokens.svelte *)
(* the recursive markdown token renderer with its "sources:" extraction    *)
(* pass, its citation strip and its CSV export handler.                    *)
(*                                                                         *)
(* Conventions.  A JavaScript string that the code inspects character by   *)
(* character (token text, titles, urls, csv) is a sequence of one-character *)
(* strings; ids, which the code only concatenates, are TLA+ strings.  An   *)
(* object field that is undefined in JavaScript is a field missing from    *)
(* the record's DOMAIN.  Arrays are sequences, so the code's index k is    *)
(* k + 1 here; indices that the code prints into ids stay 0-based.         *)
(***************************************************************************)
EXTENDS Integers, Sequences, FiniteSets, TLC

VARIABLES tokens, stack, out, console, saved

vars == <<tokens, stack, out, console, saved>>

(***************************************************************************)
(* Bounds of the explored inputs.                                          *)
(***************************************************************************)
\* longest top-level sequence over the tokens the sources scan looks at
MaxLen == 5
\* longest top-level sequence over every token kind of the dispatch table
MaxRenderLen == 2
\* longest source title (in UTF-16 code units)
MaxTitleLen == 60
\* most body rows of an exported table
MaxRows == 2

(***************************************************************************)
(* Strings as character sequences.                                         *)
(***************************************************************************)
RECURSIVE Flatten(_)
Flatten(ss) == IF ss = <<>> THEN <<>> ELSE Head(ss) \o Flatten(Tail(ss))

\* Array.prototype.join(sep) over strings
RECURSIVE Join(_, _)
Join(ss, sep) ==
    IF ss = <<>> THEN <<>>
    ELSE IF Len(ss) = 1 THEN ss[1]
    ELSE ss[1] \o sep \o Join(Tail(ss), sep)

UpperCase == <<"A","B","C","D","E","F","G","H","I","J","K","L","M",
               "N","O","P","Q","R","S","T","U","V","W","X","Y","Z">>
LowerCase == <<"a","b","c","d","e","f","g","h","i","j","k","l","m",
               "n","o","p","q","r","s","t","u","v","w","x","y","z">>
Digits == <<"0","1","2","3","4","5","6","7","8","9">>
WhiteSpace == {" ", "\n", "\t"}

Range(s) == {s[k] : k \in DOMAIN s}

\* String.prototype.toLowerCase
ToLowerCase(s) ==
    [k \in DOMAIN s |->
        IF \E n \in DOMAIN UpperCase : UpperCase[n] = s[k]
        THEN LowerCase[CHOOSE n \in DOMAIN UpperCase : UpperCase[n] = s[k]]
        ELSE s[k]]

\* String.prototype.trim
Trim(s) ==
    LET keep == {k \in DOMAIN s : s[k] \notin WhiteSpace}
    IN  IF keep = {} THEN <<>>
        ELSE LET lo == CHOOSE k \in keep : \A n \in keep : k <= n
                 hi == CHOOSE k \in keep : \A n \in keep : k >= n
             IN  SubSeq(s, lo, hi)

\* String.prototype.startsWith
StartsWith(s, prefix) ==
    /\ Len(prefix) <= Len(s)
    /\ SubSeq(s, 1, Len(prefix)) = prefix

\* the positions at which sub occurs in s
Occurrences(s, sub) ==
    {k \in 1..(Len(s) - Len(sub) + 1) : SubSeq(s, k, k + Len(sub) - 1) = sub}

\* String.prototype.includes
Includes(s, sub) == Occurrences(s, sub) # {}

\* String.prototype.slice(0, n) for 0 <= n
Slice0(s, n) == SubSeq(s, 1, IF n < Len(s) THEN n ELSE Len(s))

Has(obj, fld) == fld \in DOMAIN obj

(***************************************************************************)
(* The sources extraction pass (script block, lines 82-158).               *)
(***************************************************************************)
sourcesPrefix == <<"s","o","u","r","c","e","s",":">>

\* lines 89-98 and 135-144: the trigger test both scans apply to tokens[i]
IsSourcesTriggerNoStrong(t) ==
    /\ t.type = "paragraph"
    /\ Has(t, "tokens")
    /\ Len(t.tokens) = 1
    /\ Has(t.tokens[1], "text")
    /\ StartsWith(ToLowerCase(Trim(t.tokens[1].text)), sourcesPrefix)

IsSourcesTrigger(t) ==
    /\ t.type = "paragraph"
    /\ Has(t, "tokens")
    /\ Len(t.tokens) = 1
    /\ t.tokens[1].type = "strong"
    /\ Has(t.tokens[1], "tokens")
    /\ Len(t.tokens[1].tokens) = 1
    /\ t.tokens[1].tokens[1].type = "text"
    /\ StartsWith(ToLowerCase(Trim(t.tokens[1].tokens[1].text)), sourcesPrefix)

\* the least position >= from holding character c, or 0
FirstIndex(s, c, from) ==
    LET hits == {k \in from..Len(s) : s[k] = c}
    IN  IF hits = {} THEN 0 ELSE CHOOSE k \in hits : \A n \in hits : k <= n

\* line 86 with String.prototype.match: /^\[([^\]]+)\]\(([^\)]+)\)$/ .
\* <<>> is null, otherwise <<group 1, group 2>>.  Both groups exclude their
\* closing character, so each ends at the first one found.
linkRegexMatch(s) ==
    LET rb == FirstIndex(s, "]", 2)
        rp == IF rb = 0 THEN 0 ELSE FirstIndex(s, ")", rb + 2)
    IN  IF /\ Len(s) >= 1
           /\ s[1] = "["
           /\ rb >= 3
           /\ rb + 1 <= Len(s)
           /\ s[rb + 1] = "("
           /\ rp >= rb + 3
           /\ rp = Len(s)
        THEN <<SubSeq(s, 2, rb - 1), SubSeq(s, rb + 2, rp - 1)>>
        ELSE <<>>

\* line 103: (item.tokens || []).find((t) => t.type === 'link'); <<>> is undefined
findLinkToken(item) ==
    LET toks == IF Has(item, "tokens") THEN item.tokens ELSE <<>>
        hits == {k \in DOMAIN toks : toks[k].type = "link"}
    IN  IF hits = {} THEN <<>>
        ELSE <<toks[CHOOSE k \in hits : \A n \in hits : k <= n]>>

\* lines 103-118: what one list item pushes onto sources (nothing or one record)
itemSources(item) ==
    LET linkToken == findLinkToken(item)
    IN  IF linkToken # <<>>
        THEN <<[title |-> linkToken[1].text, url |-> linkToken[1].href]>>
        ELSE IF Has(item, "text") /\ item.text # <<>>
        THEN LET match == linkRegexMatch(item.text)
             IN  IF match # <<>>
                 THEN <<[title |-> match[1], url |-> match[2]]>>
                 ELSE <<>>
        ELSE <<>>

\* lines 101-119: the for loop over listToken.items
RECURSIVE listSources(_)
listSources(items) ==
    IF items = <<>> THEN <<>>
    ELSE itemSources(Head(items)) \o listSources(Tail(items))

\* lines 99-100: const listToken = tokens[i + 1]; listToken && listToken.type === 'list'
NextIsList(toks, i) == i + 1 <= Len(toks) /\ toks[i + 1].type = "list"

\* lines 87-125: the while loop of extractAllSourcesFromTokens, cursor at i
RECURSIVE extractLoopFirst(_, _, _)
extractLoopFirst(toks, i, sources) ==
    IF i > Len(toks) THEN sources
    ELSE IF IsSourcesTrigger(toks[i]) /\ NextIsList(toks, i)
    THEN sources \o listSources(toks[i + 1].items)
    ELSE extractLoopFirst(toks, i + 1, sources)

RECURSIVE extractLoop(_, _, _)
extractLoop(toks, i, sources) ==
    IF i > Len(toks) THEN sources
    ELSE IF IsSourcesTrigger(toks[i]) /\ NextIsList(toks, i)
    THEN extractLoop(toks, i + 2, sources \o listSources(toks[i + 1].items))
    ELSE extractLoop(toks, i + 1, sources)

\* lines 83-127
extractAllSourcesFromTokens(toks) == extractLoop(toks, 1, <<>>)

\* lines 133-156: the while loop of filterOutAllSourcesSections, cursor at i
RECURSIVE filterLoopKeepLone(_, _, _)
filterLoopKeepLone(toks, i, filtered) ==
    IF i > Len(toks) THEN filtered
    ELSE IF IsSourcesTrigger(toks[i]) /\ NextIsList(toks, i)
    THEN filterLoopKeepLone(toks, i + 2, filtered)
    ELSE filterLoopKeepLone(toks, i + 1, Append(filtered, toks[i]))

RECURSIVE filterLoop(_, _, _)
filterLoop(toks, i, filtered) ==
    IF i > Len(toks) THEN filtered
    ELSE IF IsSourcesTrigger(toks[i])
    THEN IF NextIsList(toks, i)
         THEN filterLoop(toks, i + 2, filtered)
         ELSE filterLoop(toks, i + 1, filtered)
    ELSE filterLoop(toks, i + 1, Append(filtered, toks[i]))

\* lines 130-158
filterOutAllSourcesSections(toks) == filterLoop(toks, 1, <<>>)

\* lines 87-125, the cursor i of extractAllSourcesFromTokens: the positions it
\* takes (0-based, as in the code) and whether the items of the list at i + 1 are
\* read there
RECURSIVE extractVisits(_, _, _)
extractVisits(toks, i, visits) ==
    IF i > Len(toks) THEN visits
    ELSE IF IsSourcesTrigger(toks[i]) /\ NextIsList(toks, i)
    THEN extractVisits(toks, i + 2, Append(visits, [at |-> i - 1, pair |-> TRUE]))
    ELSE extractVisits(toks, i + 1, Append(visits, [at |-> i - 1, pair |-> FALSE]))

\* lines 133-156, the cursor i of filterOutAllSourcesSections: the positions it
\* takes, whether the token at i and the list at i + 1 are skipped together
\* there, and whether the token at i is pushed onto filtered
RECURSIVE filterVisitsByOne(_, _, _)
filterVisitsByOne(toks, i, visits) ==
    IF i > Len(toks) THEN visits
    ELSE IF IsSourcesTrigger(toks[i])
    THEN filterVisitsByOne(toks, i + 1,
            Append(visits, [at |-> i - 1, pair |-> NextIsList(toks, i), kept |-> FALSE]))
    ELSE filterVisitsByOne(toks, i + 1, Append(visits, [at |-> i - 1, pair |-> FALSE, kept |-> TRUE]))

RECURSIVE filterVisits(_, _, _)
filterVisits(toks, i, visits) ==
    IF i > Len(toks) THEN visits
    ELSE IF IsSourcesTrigger(toks[i])
    THEN IF NextIsList(toks, i)
         THEN filterVisits(toks, i + 2, Append(visits, [at |-> i - 1, pair |-> TRUE, kept |-> FALSE]))
         ELSE filterVisits(toks, i + 1, Append(visits, [at |-> i - 1, pair |-> FALSE, kept |-> FALSE]))
    ELSE filterVisits(toks, i + 1, Append(visits, [at |-> i - 1, pair |-> FALSE, kept |-> TRUE]))

\* line 165: the reactive filteredTokens
filteredTokensAlways(toks, extractedSources) == filterOutAllSourcesSections(toks)

filteredTokensOf(toks, extractedSources) ==
    IF Len(extractedSources) > 0 THEN filterOutAllSourcesSections(toks) ELSE toks

(***************************************************************************)
(* The citation strip (lines 168-172 and 486-508).                         *)
(***************************************************************************)
IdChars == Range(UpperCase) \cup Range(LowerCase) \cup Range(Digits) \cup {"_", "-"}

YouTubeIdLen == 11

youtubeWatch == <<"y","o","u","t","u","b","e",".","c","o","m","/","w","a","t","c","h","?","v","=">>
youtubeShort == <<"y","o","u","t","u",".","b","e","/">>

\* lines 169-172: url.match(/(?:youtube\.com\/watch\?v=|youtu\.be\/)([a-zA-Z0-9_-]{11})/),
\* <<>> is null, otherwise <<the id>>; the leftmost match wins
getYouTubeId(url) ==
    LET IdAt(k) == /\ k + YouTubeIdLen - 1 <= Len(url)
                   /\ \A n \in k..(k + YouTubeIdLen - 1) : url[n] \in IdChars
        starts == {k \in Occurrences(url, youtubeWatch) : IdAt(k + Len(youtubeWatch))}
        shorts == {k \in Occurrences(url, youtubeShort) : IdAt(k + Len(youtubeShort))}
        all == starts \cup shorts
    IN  IF all = {} THEN <<>>
        ELSE LET k == CHOOSE m \in all : \A n \in all : m <= n
                 from == IF k \in starts THEN k + Len(youtubeWatch)
                                         ELSE k + Len(youtubeShort)
             IN  <<SubSeq(url, from, from + YouTubeIdLen - 1)>>

TitleLimit == 48
TitleKeep == 45
ellipsis == <<".", ".", ".">>

\* line 503: source.title.length > 48 ? `${source.title.slice(0, 45)}...` : source.title
citationTitleEarly(title) ==
    IF Len(title) > TitleKeep THEN Slice0(title, TitleKeep) \o ellipsis ELSE title

citationTitle(title) ==
    IF Len(title) > TitleLimit THEN Slice0(title, TitleKeep) \o ellipsis ELSE title

\* lines 489-505: one card of the each-block
citationCardByTitle(source) ==
    [href |-> source.title,
     title |-> source.title,
     thumb |-> getYouTubeId(source.url),
     shown |-> citationTitle(source.title)]

citationCard(source) ==
    [href |-> source.url,
     title |-> source.title,
     thumb |-> getYouTubeId(source.url),
     shown |-> citationTitle(source.title)]

(***************************************************************************)
(* The CSV export handler (lines 46-80).                                   *)
(***************************************************************************)
quote == "\""
bom == <<"\\uFEFF">>
comma == <<",">>
newline == <<"\n">>

\* String.prototype.replace(/"/g, '""')
doubleQuotes(s) == Flatten([k \in DOMAIN s |-> IF s[k] = quote THEN <<quote, quote>> ELSE <<s[k]>>])

\* lines 50 and 58: `"${text.replace(/"/g, '""')}"`
csvFieldRaw(text) == <<quote>> \o text \o <<quote>>

csvField(text) == <<quote>> \o doubleQuotes(text) \o <<quote>>

\* line 56: cell.tokens.map((token) => token.text).join(''); join prints undefined as ''
cellContent(cell) ==
    Flatten([k \in DOMAIN cell.tokens |->
                IF Has(cell.tokens[k], "text") THEN cell.tokens[k].text ELSE <<>>])

\* lines 50-66: csvContent
csvContent(token) ==
    LET header == [k \in DOMAIN token.header |-> csvField(token.header[k].text)]
        rows == [r \in DOMAIN token.rows |->
                    [c \in DOMAIN token.rows[r] |-> csvField(cellContent(token.rows[r][c]))]]
        csvData == <<header>> \o rows
    IN  Join([r \in DOMAIN csvData |-> Join(csvData[r], comma)], newline)

\* lines 73-79: the blob handed to saveAs and its file name
csvFile(id, token, tokenIdx) ==
    [name |-> "table-" \o id \o "-" \o ToString(tokenIdx) \o ".csv",
     type |-> "text/csv;charset=UTF-8",
     content |-> bom \o csvContent(token)]

(***************************************************************************)
(* Tokens as marked hands them to the component (the tokens prop, line 28).*)
(***************************************************************************)
TextTok(s) == [type |-> "text", raw |-> s, text |-> s]
InlineText(s, children) == [type |-> "text", raw |-> s, text |-> s, tokens |-> children]
Strong(s, children) == [type |-> "strong", text |-> s, tokens |-> children]
Link(title, href) == [type |-> "link", href |-> href, text |-> title, tokens |-> <<TextTok(title)>>]
Paragraph(children) == [type |-> "paragraph", tokens |-> children]
Blockquote(children, alert) == [type |-> "blockquote", tokens |-> children, alert |-> alert]
Details(summary, body) == [type |-> "details", summary |-> summary, text |-> body]
List(ordered, start, loose, items) ==
    [type |-> "list", ordered |-> ordered, start |-> start, loose |-> loose, items |-> items]

\* the raw text of a markdown link, [title](url)
LinkText(title, url) == <<"[">> \o title \o <<"]", "(">> \o url \o <<")">>

\* a list item that is the markdown link [title](url): marked nests the link token
\* in the item's text token ...
ItemWrapped(title, url) ==
    [type |-> "list_item", task |-> FALSE, text |-> LinkText(title, url),
     tokens |-> <<InlineText(LinkText(title, url), <<Link(title, url)>>)>>]
\* ... and a tokenizer that leaves it among the item's own tokens
ItemDirect(title, url) ==
    [type |-> "list_item", task |-> FALSE, text |-> LinkText(title, url),
     tokens |-> <<Link(title, url)>>]
\* a list item of plain text
ItemPlain(s, task) ==
    [type |-> "list_item", task |-> task, checked |-> FALSE, text |-> s, tokens |-> <<TextTok(s)>>]
\* a list item holding block tokens
ItemBlocks(s, children) ==
    [type |-> "list_item", task |-> FALSE, text |-> s, tokens |-> children]

TitleA == <<"a">>
TitleB == <<"B", "b">>
UrlPlain == <<"u", ".", "i", "o">>
UrlParen == <<"u", "/", "F", "_", "(", "b", ")">>
UrlYouTube == <<"y","o","u","t","u",".","b","e","/","d","Q","w","4","w","9","W","g","X","c","Q">>

\* a title of n code units, each position recognisable
LongTitle(n) == [k \in 1..n |-> Digits[(k % 10) + 1]]

TrigText == <<" ", "S", "o", "u", "r", "c", "e", "s", ":", " ">>
TrigTextUpper == <<"S", "O", "U", "R", "C", "E", "S", ":", " ", "a">>
NoColonText == <<"S", "o", "u", "r", "c", "e", "s">>
MidText == <<"a", " ", "s", "o", "u", "r", "c", "e", "s", ":">>

\* paragraphs that are the trigger: **Sources:** alone in the paragraph
Trig == Paragraph(<<Strong(TrigText, <<TextTok(TrigText)>>)>>)
TrigUpper == Paragraph(<<Strong(TrigTextUpper, <<TextTok(TrigTextUpper)>>)>>)
TriggerParagraphs == {Trig, TrigUpper}

\* paragraphs that are not: not bold; no colon; not at the start; bold plus more;
\* bold around emphasis; no children at all
ParaPlain == Paragraph(<<TextTok(sourcesPrefix)>>)
ParaNoColon == Paragraph(<<Strong(NoColonText, <<TextTok(NoColonText)>>)>>)
ParaMid == Paragraph(<<Strong(MidText, <<TextTok(MidText)>>)>>)
ParaTwo == Paragraph(<<Strong(TrigText, <<TextTok(TrigText)>>), TextTok(TitleA)>>)
ParaEm == Paragraph(<<Strong(TrigText, <<[type |-> "em", text |-> TrigText,
                                          tokens |-> <<TextTok(TrigText)>>]>>)>>)
ParaBare == [type |-> "paragraph", text |-> sourcesPrefix]
OtherParagraphs == {ParaPlain, ParaNoColon, ParaMid, ParaTwo, ParaEm, ParaBare}

Unset == <<>>
ListLinks == List(TRUE, <<5>>, FALSE, <<ItemDirect(TitleA, UrlPlain), ItemWrapped(TitleB, UrlYouTube)>>)
ListWrapped == List(TRUE, <<5>>, FALSE, <<ItemWrapped(TitleA, UrlPlain), ItemWrapped(TitleB, UrlYouTube)>>)
ListEmpty == List(FALSE, Unset, FALSE, <<>>)
ListParen == List(TRUE, <<0>>, FALSE, <<ItemWrapped(TitleA, UrlParen)>>)
ListPlain == List(FALSE, Unset, TRUE, <<ItemPlain(TitleA, TRUE), ItemWrapped(TitleB, UrlPlain)>>)
ListOne == List(TRUE, <<1>>, TRUE, <<ItemPlain(TitleB, FALSE)>>)
ListNoStart == [type |-> "list", ordered |-> TRUE, loose |-> FALSE, items |-> <<ItemPlain(TitleA, FALSE)>>]
ListNested == List(FALSE, Unset, TRUE, <<ItemBlocks(TrigText, <<Trig, ListLinks>>)>>)
ListOfTitle(n) == List(FALSE, Unset, FALSE, <<ItemDirect(LongTitle(n), UrlPlain)>>)

QuoteNested == Blockquote(<<Trig, ListLinks>>, FALSE)
QuoteAlert == Blockquote(<<ParaPlain>>, TRUE)
\* the markdown of a sources block: a details body is raw text until it is rendered
BodySources ==
    <<"*", "*">> \o TrigText \o <<"*", "*", "\n", "\n", "5", ".", " ">>
    \o LinkText(TitleA, UrlPlain) \o <<"\n", "6", ".", " ">> \o LinkText(TitleB, UrlYouTube)
DetailsNested == Details(TitleA, BodySources)
DetailsPlain == Details(TitleB, TitleA)

\* the code unit U+0060, which a TLA+ string cannot hold
backtick == "\\x60"
Fence == <<backtick, backtick, backtick>>
CodeFenced == [type |-> "code", raw |-> Fence \o TitleA \o Fence, lang |-> TitleB, text |-> TitleA]
CodeIndented == [type |-> "code", raw |-> TitleA, text |-> TitleA]

HeaderA == [text |-> <<"A">>, tokens |-> <<TextTok(<<"A">>)>>]
HeaderB == [text |-> <<"B">>, tokens |-> <<TextTok(<<"B">>)>>]
HeaderQ == [text |-> <<"q", quote>>, tokens |-> <<TextTok(<<"q", quote>>)>>]
HeQuoted == <<"H","e"," ","s","a","i","d"," ",quote,"h","i",quote>>
CellComma == [text |-> <<"x", ",", "y">>, tokens |-> <<TextTok(<<"x", ",", "y">>)>>]
CellQuoted == [text |-> HeQuoted, tokens |-> <<TextTok(HeQuoted)>>]
CellMixed == [text |-> <<"*", "*", "b", "*", "*", "<", "b", "r", ">">>,
              tokens |-> <<Strong(<<"b">>, <<TextTok(<<"b">>)>>), [type |-> "br", raw |-> <<"<", "b", "r", ">">>]>>]
CellEmpty == [text |-> <<>>, tokens |-> <<>>]
HeaderCells == {HeaderA, HeaderB, HeaderQ}
BodyCells == {CellComma, CellQuoted, CellMixed, CellEmpty}

Table(header, align, rows) == [type |-> "table", header |-> header, align |-> align, rows |-> rows]
TableExample == Table(<<HeaderA, HeaderB>>, <<"null", "center">>, <<<<CellComma, CellQuoted>>>>)

\* sequences over S of the lengths in lens
SeqsOf(S, lens) == UNION {[1..n -> S] : n \in lens}

\* the tokens the sources scan tells apart
ScanTokens == {Trig, ParaPlain, ListWrapped, ListEmpty}

\* one token for every branch of the dispatch (lines 177-414)
RenderTokens ==
    {Trig, ParaPlain, ListLinks, ListEmpty, ListParen, ListPlain, ListOne, ListNoStart, ListNested,
     QuoteNested, QuoteAlert, DetailsNested, DetailsPlain, CodeFenced, CodeIndented, TableExample,
     [type |-> "hr"],
     [type |-> "heading", depth |-> 2, tokens |-> <<TextTok(TitleA)>>],
     [type |-> "html", text |-> TitleA],
     [type |-> "iframe", fileId |-> TitleA],
     InlineText(TitleA, <<TextTok(TitleA)>>),
     TextTok(TitleB),
     [type |-> "inlineKatex", text |-> TitleA],
     [type |-> "blockKatex", text |-> <<>>, displayMode |-> TRUE],
     [type |-> "space"],
     [type |-> "def", raw |-> TitleA]}

\* tables of up to MaxRows rows: one column under any header, two under A and B
Tables ==
    {Table(<<h>>, <<"null">>, r) : h \in HeaderCells, r \in SeqsOf([1..1 -> BodyCells], 0..MaxRows)}
    \cup {Table(<<HeaderA, HeaderB>>, <<"null", "null">>, r) :
              r \in SeqsOf([1..2 -> BodyCells], 0..MaxRows)}

\* the messages explored: the tokens prop of the message-level instance
Messages ==
    SeqsOf(ScanTokens, 0..MaxLen)
    \cup {<<p, ListLinks>> : p \in TriggerParagraphs \cup OtherParagraphs}
    \cup SeqsOf(RenderTokens, 0..MaxRenderLen)
    \cup {<<Trig, ListOfTitle(n)>> : n \in 0..MaxTitleLen}
    \cup {<<t>> : t \in Tables}

(***************************************************************************)
(* The component.  Every <svelte:self> is one more instance: a frame on    *)
(* stack, the message-level instance at the bottom.  out is the rendered   *)
(* output in document order, console the diagnostic log, saved the files   *)
(* handed to saveAs.                                                       *)
(***************************************************************************)
RootId == "msg"

\* lines 27-30: the props of a new instance; its reactive values not yet computed
NewInstance(id, toks, top) ==
    [id |-> id, tokens |-> toks, top |-> top, pc |-> "init",
     extractedSources |-> <<>>, filteredTokens |-> <<>>,
     tokenIdx |-> 0, itemIdx |-> 0, cards |-> <<>>]

Depth == Len(stack)
Self == stack[Depth]
\* the token the each-block of line 176 is at
Current == Self.filteredTokens[Self.tokenIdx + 1]
AtToken == Depth > 0 /\ Self.pc = "render" /\ Self.tokenIdx < Len(Self.filteredTokens)

SetSelf(f) == [stack EXCEPT ![Depth] = f]
Push(f, child) == Append(SetSelf(f), child)

\* the place of an element: the instance and the token that rendered it
Placed(f, e) ==
    e @@ [owner |-> f.id, tokenIdx |-> f.tokenIdx, top |-> f.top,
          kind |-> IF f.tokenIdx < Len(f.filteredTokens)
                   THEN f.filteredTokens[f.tokenIdx + 1].type ELSE "strip"]

\* line 42-44
headerComponent(depth) == "h" \o ToString(depth)

\* AlertRenderer.svelte: whether the blockquote is a recognised alert
alertComponent(token) == token.alert

\* line 359: marked.lexer(token.text), on the bodies that occur
markedLexer(text) ==
    IF text = BodySources THEN <<Trig, ListWrapped>> ELSE <<Paragraph(<<TextTok(text)>>)>>

\* the id of a token's child: `${id}-${tokenIdx}` and `${id}-${tokenIdx}-${suffix}`
TokenId(id, tokenIdx) == id \o "-" \o ToString(tokenIdx)
SuffixId(id, tokenIdx, suffix) == id \o "-" \o ToString(tokenIdx) \o "-" \o suffix

\* lines 221 and 242: style={token.align[c] ? '' : `text-align: ${token.align[c]}`}
cellStyle(align) == IF align # "null" THEN "" ELSE "text-align: " \o align

\* lines 217-255: the header cells, then the body cells row by row
tableCells(id, token, tokenIdx) ==
    [c \in DOMAIN token.header |->
        [tag |-> "th", style |-> cellStyle(token.align[c]), col |-> c - 1,
         inline |-> SuffixId(id, tokenIdx, "header-" \o ToString(c - 1)),
         tokens |-> token.header[c].tokens]]
    \o Flatten([r \in DOMAIN token.rows |->
        [c \in DOMAIN token.rows[r] |->
            [tag |-> "td", style |-> cellStyle(token.align[c]), col |-> c - 1,
             inline |-> SuffixId(id, tokenIdx, "row-" \o ToString(r - 1) \o "-" \o ToString(c - 1)),
             tokens |-> token.rows[r][c].tokens]]])

\* lines 284 and 316: the list element, <ol start={token.start || 1}> or <ul>
listElement(token) ==
    IF token.ordered
    THEN [tag |-> "ol", start |-> IF /\ Has(token, "start")
                                     /\ token.start # Unset
                                     /\ token.start[1] # 0
                                 THEN token.start[1] ELSE 1]
    ELSE [tag |-> "ul"]

\* whether the token's branch mounts child instances
Recurses(token) ==
    \/ token.type = "blockquote" /\ ~alertComponent(token)
    \/ token.type = "list"
    \/ token.type = "details"

KnownLeaf == {"hr", "heading", "code", "table", "blockquote", "html", "iframe",
              "paragraph", "text", "inlineKatex", "blockKatex", "space"}

\* lines 177-414 without the three recursing branches: the elements one token renders
leafElements(f, token) ==
    LET id == f.id
        n == f.tokenIdx
    IN  CASE token.type = "hr" -> <<[tag |-> "hr"]>>
          [] token.type = "heading" ->
                <<[tag |-> headerComponent(token.depth),
                   inline |-> SuffixId(id, n, "h"), tokens |-> token.tokens]>>
          [] token.type = "code" ->
                IF Includes(token.raw, Fence)
                THEN <<[tag |-> "CodeBlock", id |-> TokenId(id, n),
                        lang |-> IF Has(token, "lang") THEN token.lang ELSE <<>>,
                        code |-> IF Has(token, "text") THEN token.text ELSE <<>>]>>
                ELSE <<[tag |-> "#text", text |-> token.text]>>
          [] token.type = "table" ->
                <<[tag |-> "table", id |-> id, token |-> token,
                   cells |-> tableCells(id, token, n)]>>
          [] token.type = "blockquote" -> <<[tag |-> "AlertRenderer", token |-> token]>>
          [] token.type = "html" -> <<[tag |-> "HtmlToken", id |-> id, token |-> token]>>
          [] token.type = "iframe" -> <<[tag |-> "iframe", title |-> token.fileId]>>
          [] token.type = "paragraph" ->
                <<[tag |-> "p", inline |-> SuffixId(id, n, "p"),
                   tokens |-> IF Has(token, "tokens") THEN token.tokens ELSE <<>>]>>
          [] token.type = "text" ->
                IF f.top
                THEN IF Has(token, "tokens")
                     THEN <<[tag |-> "p", inline |-> SuffixId(id, n, "t"), tokens |-> token.tokens]>>
                     ELSE <<[tag |-> "p", text |-> token.text]>>
                ELSE IF Has(token, "tokens")
                     THEN <<[tag |-> "inline", inline |-> SuffixId(id, n, "p"), tokens |-> token.tokens]>>
                     ELSE <<[tag |-> "#text", text |-> token.text]>>
          [] token.type \in {"inlineKatex", "blockKatex"} ->
                IF token.text # <<>>
                THEN <<[tag |-> "KatexRenderer", content |-> token.text,
                        displayMode |-> IF Has(token, "displayMode") THEN token.displayMode ELSE FALSE]>>
                ELSE <<>>
          [] token.type = "space" -> <<[tag |-> "div"]>>
          [] OTHER -> <<>>

PlaceAll(f, es) == [k \in DOMAIN es |-> Placed(f, es[k])]

\* line 413: {console.log('Unknown token', token)} is a text expression whose value
\* is what console.log returns, undefined.  What the template prints for undefined
\* is the compiler's: the empty string (Svelte 5) or "undefined" (Svelte 3 and 4,
\* where a text expression is compiled to value + "").
printedUndefined == {<<>>, <<"u", "n", "d", "e", "f", "i", "n", "e", "d">>}
\* the text node of a text expression: nothing to see when the text is empty
textNode(shown) == IF shown = <<>> THEN <<>> ELSE <<[tag |-> "#text", text |-> shown]>>

(***************************************************************************)
(* Actions.                                                                *)
(***************************************************************************)
Init ==
    /\ tokens \in Messages
    /\ stack = <<NewInstance(RootId, tokens, TRUE)>>
    /\ out = <<>>
    /\ console = <<>>
    /\ saved = <<>>

\* lines 161-165: the script block of an instance runs: the debug log, then the
\* reactive extractedSources and filteredTokens
UpdateAlways ==
    /\ Depth > 0
    /\ Self.pc = "init"
    /\ LET extractedSources == extractAllSourcesFromTokens(Self.tokens)
       IN  stack' = SetSelf([Self EXCEPT
                        !.pc = "render",
                        !.extractedSources = extractedSources,
                        !.filteredTokens = filterOutAllSourcesSections(Self.tokens)])
    /\ console' = Append(console, [msg |-> "MarkdownTokens.svelte tokens:", id |-> Self.id])
    /\ UNCHANGED <<tokens, out, saved>>

Update ==
    /\ Depth > 0
    /\ Self.pc = "init"
    /\ LET extractedSources == extractAllSourcesFromTokens(Self.tokens)
       IN  stack' = SetSelf([Self EXCEPT
                        !.pc = "render",
                        !.extractedSources = extractedSources,
                        !.filteredTokens = filteredTokensOf(Self.tokens, extractedSources)])
    /\ console' = Append(console, [msg |-> "MarkdownTokens.svelte tokens:", id |-> Self.id])
    /\ UNCHANGED <<tokens, out, saved>>

\* lines 177-272, 275-276, 366-414: a token whose branch mounts no child instance
RenderLeaf ==
    /\ AtToken
    /\ ~Recurses(Current)
    /\ \E shown \in (IF Current.type \in KnownLeaf THEN {<<>>} ELSE printedUndefined) :
          out' = out \o PlaceAll(Self, leafElements(Self, Current) \o textNode(shown))
    /\ console' = IF Current.type \in KnownLeaf THEN console
                  ELSE Append(console, [msg |-> "Unknown token", id |-> Self.id,
                                        tokenIdx |-> Self.tokenIdx])
    /\ stack' = SetSelf([Self EXCEPT !.tokenIdx = @ + 1])
    /\ UNCHANGED <<tokens, saved>>

\* lines 277-280: a blockquote that is no alert mounts an instance on its children;
\* no top is passed, so the instance has the default of line 29, true
RenderBlockquoteNotTop ==
    /\ AtToken
    /\ Current.type = "blockquote"
    /\ ~alertComponent(Current)
    /\ out' = Append(out, Placed(Self, [tag |-> "blockquote",
                                        id |-> TokenId(Self.id, Self.tokenIdx)]))
    /\ stack' = Push([Self EXCEPT !.tokenIdx = @ + 1],
                     NewInstance(TokenId(Self.id, Self.tokenIdx), Current.tokens, FALSE))
    /\ UNCHANGED <<tokens, console, saved>>

RenderBlockquote ==
    /\ AtToken
    /\ Current.type = "blockquote"
    /\ ~alertComponent(Current)
    /\ out' = Append(out, Placed(Self, [tag |-> "blockquote",
                                        id |-> TokenId(Self.id, Self.tokenIdx)]))
    /\ stack' = Push([Self EXCEPT !.tokenIdx = @ + 1],
                     NewInstance(TokenId(Self.id, Self.tokenIdx), Current.tokens, TRUE))
    /\ UNCHANGED <<tokens, console, saved>>

\* lines 282-284 and 315-316: the list element opens
RenderList ==
    /\ AtToken
    /\ Current.type = "list"
    /\ out' = Append(out, Placed(Self, listElement(Current) @@ [token |-> Current]))
    /\ stack' = SetSelf([Self EXCEPT !.pc = "items", !.itemIdx = 0])
    /\ UNCHANGED <<tokens, console, saved>>

\* lines 285-313 and 317-345: one item: its checkbox when it is a task, and an
\* instance on the item's tokens
RenderListItem ==
    /\ Depth > 0
    /\ Self.pc = "items"
    /\ Self.itemIdx < Len(Current.items)
    /\ LET item == Current.items[Self.itemIdx + 1]
           li == <<Placed(Self, [tag |-> "li", itemIdx |-> Self.itemIdx,
                                 id |-> SuffixId(Self.id, Self.tokenIdx, ToString(Self.itemIdx))])>>
           box == IF Has(item, "task") /\ item.task
                  THEN <<Placed(Self, [tag |-> "input", itemIdx |-> Self.itemIdx,
                                       checked |-> item.checked])>>
                  ELSE <<>>
       IN  /\ out' = out \o li \o box
           /\ stack' = Push([Self EXCEPT !.itemIdx = @ + 1],
                            NewInstance(SuffixId(Self.id, Self.tokenIdx, ToString(Self.itemIdx)),
                                        item.tokens, Current.loose))
    /\ UNCHANGED <<tokens, console, saved>>

\* lines 314 and 346: after the last item the each-block of line 176 goes on
CloseList ==
    /\ Depth > 0
    /\ Self.pc = "items"
    /\ Self.itemIdx = Len(Current.items)
    /\ stack' = SetSelf([Self EXCEPT !.pc = "render", !.tokenIdx = @ + 1])
    /\ UNCHANGED <<tokens, out, console, saved>>

\* lines 348-365: a details token mounts an instance on its re-lexed body
RenderDetails ==
    /\ AtToken
    /\ Current.type = "details"
    /\ out' = Append(out, Placed(Self, [tag |-> "Collapsible", title |-> Current.summary,
                                        id |-> SuffixId(Self.id, Self.tokenIdx, "d")]))
    /\ stack' = Push([Self EXCEPT !.tokenIdx = @ + 1],
                     NewInstance(SuffixId(Self.id, Self.tokenIdx, "d"),
                                 markedLexer(Current.text), TRUE))
    /\ UNCHANGED <<tokens, console, saved>>

\* lines 418 and 486-487: the each-block is through; extractedSources is an array,
\* hence truthy, and the strip's container is rendered
RenderStrip ==
    /\ Depth > 0
    /\ Self.pc = "render"
    /\ Self.tokenIdx = Len(Self.filteredTokens)
    /\ out' = Append(out, Placed(Self, [tag |-> "strip"]))
    /\ stack' = SetSelf([Self EXCEPT !.pc = "cards"])
    /\ UNCHANGED <<tokens, console, saved>>

\* lines 488-506: the next card of the strip
RenderCard ==
    /\ Depth > 0
    /\ Self.pc = "cards"
    /\ Len(Self.cards) < Len(Self.extractedSources)
    /\ LET card == citationCard(Self.extractedSources[Len(Self.cards) + 1])
       IN  /\ out' = Append(out, Placed(Self, card @@ [tag |-> "a"]))
           /\ stack' = SetSelf([Self EXCEPT !.cards = Append(@, card)])
    /\ UNCHANGED <<tokens, console, saved>>

\* line 509: the instance is rendered
Finish ==
    /\ Depth > 0
    /\ Self.pc = "cards"
    /\ Len(Self.cards) = Len(Self.extractedSources)
    /\ stack' = SetSelf([Self EXCEPT !.pc = "done"])
    /\ UNCHANGED <<tokens, out, console, saved>>

\* a child instance is rendered: its parent's template goes on
Return ==
    /\ Depth > 1
    /\ Self.pc = "done"
    /\ stack' = SubSeq(stack, 1, Depth - 1)
    /\ UNCHANGED <<tokens, out, console, saved>>

Rendered == Depth = 1 /\ stack[1].pc = "done"

\* lines 263-266 and 46-80: a click on the export button of a rendered table
ExportTable ==
    /\ Rendered
    /\ saved = <<>>
    /\ \E k \in DOMAIN out :
          /\ out[k].tag = "table"
          /\ saved' = Append(saved, csvFile(out[k].id, out[k].token, out[k].tokenIdx))
          /\ console' = console \o <<[msg |-> "Exporting table to CSV", id |-> out[k].id]>>
    /\ UNCHANGED <<tokens, stack, out>>

Next ==
    \/ Update
    \/ RenderLeaf
    \/ RenderBlockquote
    \/ RenderList
    \/ RenderListItem
    \/ CloseList
    \/ RenderDetails
    \/ RenderStrip
    \/ RenderCard
    \/ Finish
    \/ Return
    \/ ExportTable

Spec == Init /\ [][Next]_vars

(***************************************************************************)
(* What the claims speak of.                                               *)
(***************************************************************************)
Root == stack[1]
Updated(f) == f.pc # "init"

\* the positions of s at which a trigger paragraph is immediately followed by a list
Pairs(s) == {p \in 1..(Len(s) - 1) : s[p] \in TriggerParagraphs /\ s[p + 1].type = "list"}
\* the positions a matched paragraph+list pair takes up
Consumed(s) == Pairs(s) \cup {p + 1 : p \in Pairs(s)}
\* the positions of the trigger paragraphs that no list follows
Lone(s) == {p \in DOMAIN s : s[p] \in TriggerParagraphs /\ p \notin Pairs(s)}
NoTrigger(s) == \A k \in DOMAIN s : s[k] \notin TriggerParagraphs

\* s without the positions in P, order kept
RECURSIVE KeepFrom(_, _, _)
KeepFrom(s, P, k) ==
    IF k > Len(s) THEN <<>>
    ELSE (IF k \in P THEN <<>> ELSE <<s[k]>>) \o KeepFrom(s, P, k + 1)
Without(s, P) == KeepFrom(s, P, 1)

\* the link token marked made of an item that is one markdown link
LinkOf(item) ==
    IF item.tokens[1].type = "link" THEN item.tokens[1] ELSE item.tokens[1].tokens[1]
\* the item is the markdown link [T](U) and nothing else
IsMdLinkItem(item) ==
    /\ Len(item.tokens) = 1
    /\ \/ item.tokens[1].type = "link"
       \/ /\ item.tokens[1].type = "text"
          /\ Has(item.tokens[1], "tokens")
          /\ Len(item.tokens[1].tokens) = 1
          /\ item.tokens[1].tokens[1].type = "link"
    /\ item.text = LinkText(LinkOf(item).text, LinkOf(item).href)

\* the records the lists of the pairs of s yield, pair after pair, item after item
RECURSIVE RecordsFrom(_, _)
RecordsFrom(s, k) ==
    IF k > Len(s) THEN <<>>
    ELSE (IF k \in Pairs(s)
          THEN Flatten([n \in DOMAIN s[k + 1].items |-> itemSources(s[k + 1].items[n])])
          ELSE <<>>) \o RecordsFrom(s, k + 1)
RecordsOfPairs(s) == RecordsFrom(s, 1)

\* C1: a trigger paragraph immediately followed by a list of N items, each a
\* markdown link [T](U): extractSources returns the N records {title: T, url: U}
\* in item order and filterSources returns the input without exactly those two
\* tokens.
C1_LinkListExtractedAndRemoved ==
    \A p \in Pairs(tokens) :
        (/\ Updated(Root)
         /\ Pairs(tokens) = {p}
         /\ \A n \in DOMAIN tokens[p + 1].items : IsMdLinkItem(tokens[p + 1].items[n]))
        => /\ Root.extractedSources
                = [n \in DOMAIN tokens[p + 1].items |->
                     [title |-> LinkOf(tokens[p + 1].items[n]).text,
                      url |-> LinkOf(tokens[p + 1].items[n]).href]]
           /\ filterOutAllSourcesSections(tokens) = Without(tokens, {p, p + 1})

\* C2: a token sequence holding no trigger paragraph is returned unchanged by
\* filterSources and yields no record; so it is for the sequence of every instance.
C2_NoTriggerUnchanged ==
    \A d \in DOMAIN stack :
        NoTrigger(stack[d].tokens)
        => /\ filterOutAllSourcesSections(stack[d].tokens) = stack[d].tokens
           /\ extractAllSourcesFromTokens(stack[d].tokens) = <<>>
           /\ Updated(stack[d]) => /\ stack[d].extractedSources = <<>>
                                   /\ stack[d].filteredTokens = stack[d].tokens

C2_Witness ==
    /\ Rendered
    /\ NoTrigger(tokens)
    /\ \E k \in 1..(Len(tokens) - 1) :
          tokens[k] \in OtherParagraphs /\ tokens[k + 1].type = "list"
    /\ Root.filteredTokens = tokens

\* C3 as stated: a trigger paragraph that no list follows is left in place:
\* filterSources removes the matched pairs and nothing else.
C3_LoneTriggerKept ==
    \A d \in DOMAIN stack :
        Lone(stack[d].tokens) # {}
        => filterOutAllSourcesSections(stack[d].tokens)
              = Without(stack[d].tokens, Consumed(stack[d].tokens))

\* C3 as amended: a trigger paragraph that no list follows yields no record and
\* the token after it stays, but filterSources drops the paragraph itself; only
\* trigger paragraphs and the lists of matched pairs are ever removed.
C3_LoneTriggerDropped ==
    \A d \in DOMAIN stack :
        LET s == stack[d].tokens
        IN  Lone(s) # {}
            => /\ extractAllSourcesFromTokens(s) = RecordsOfPairs(s)
               /\ filterOutAllSourcesSections(s) = Without(s, Consumed(s) \cup Lone(s))

C3_Witness ==
    /\ Rendered
    /\ Lone(tokens) # {}
    /\ Len(Root.extractedSources) > 0
    /\ Len(Root.filteredTokens) = Len(tokens) - Cardinality(Consumed(tokens) \cup Lone(tokens))
    /\ \E p \in Lone(tokens) : p < Len(tokens)

\* the pairs of s whose list has no item
EmptyPairs(s) == {p \in Pairs(s) : s[p + 1].items = <<>>}

\* C4 as stated: a trigger paragraph followed by a list of zero items yields no
\* record and the pair is absent from the token sequence the component renders.
C4_EmptyPairNeverRendered ==
    \A d \in DOMAIN stack :
        LET s == stack[d].tokens
        IN  (Updated(stack[d]) /\ EmptyPairs(s) # {})
            => \E R \in SUBSET (DOMAIN s) :
                  /\ \A p \in EmptyPairs(s) : {p, p + 1} \subseteq R
                  /\ stack[d].filteredTokens = Without(s, R)

\* C4 as amended: such a pair yields no record and filterSources removes it; the
\* component renders the filtered sequence when the sequence yielded at least one
\* record, and the input as it is, this pair included, when it yielded none.
C4_EmptyPairRenderedWithoutRecords ==
    \A d \in DOMAIN stack :
        LET s == stack[d].tokens
            f == stack[d]
        IN  (Updated(f) /\ EmptyPairs(s) # {})
            => /\ f.extractedSources = RecordsOfPairs(s)
               /\ filterOutAllSourcesSections(s) = Without(s, Consumed(s) \cup Lone(s))
               /\ Len(f.extractedSources) > 0 => f.filteredTokens = filterOutAllSourcesSections(s)
               /\ Len(f.extractedSources) = 0 => f.filteredTokens = s

\* the empty pair is the only sources block, and both its tokens were rendered
C4_Witness ==
    /\ Rendered
    /\ EmptyPairs(tokens) # {}
    /\ Pairs(tokens) = EmptyPairs(tokens)
    /\ Root.extractedSources = <<>>
    /\ \E k \in 1..(Len(out) - 1) :
          /\ out[k].tag = "p" /\ out[k].owner = RootId
          /\ out[k + 1].tag = "ul" /\ out[k + 1].owner = RootId
          /\ out[k].tokenIdx + 1 \in EmptyPairs(tokens)

\* C5 as stated: with several pairs in one sequence, extractSources returns the
\* records of every pair in sequence order and filterSources drops the pairs and
\* keeps every other token in order.
C5_AllPairsOthersKept ==
    \A d \in DOMAIN stack :
        LET s == stack[d].tokens
        IN  Cardinality(Pairs(s)) >= 2
            => /\ extractAllSourcesFromTokens(s) = RecordsOfPairs(s)
               /\ filterOutAllSourcesSections(s) = Without(s, Consumed(s))

\* C5 as amended: ... and keeps, in order, every other token that is not itself a
\* trigger paragraph.
C5_AllPairsOthersButTriggersKept ==
    \A d \in DOMAIN stack :
        LET s == stack[d].tokens
        IN  Cardinality(Pairs(s)) >= 2
            => /\ extractAllSourcesFromTokens(s) = RecordsOfPairs(s)
               /\ filterOutAllSourcesSections(s) = Without(s, Consumed(s) \cup Lone(s))
               /\ Updated(stack[d]) => stack[d].extractedSources = RecordsOfPairs(s)

\* two pairs with records each and a token between them, all rendered
C5_Witness ==
    /\ Rendered
    /\ \E p, q \in Pairs(tokens) :
          /\ p + 2 < q
          /\ tokens[p + 1].items # <<>>
          /\ tokens[q + 1].items # <<>>
          /\ Root.filteredTokens = <<tokens[p + 2]>>
    /\ Len(Root.cards) >= 3

\* C6: a trigger paragraph + list inside a nested child sequence is not
\* extracted: no instance below the message level extracts a record or drops a
\* token, and no citation card is rendered but by the message-level instance.
C6_NestedNotExtracted ==
    /\ \A d \in DOMAIN stack :
          (d > 1 /\ Updated(stack[d]))
          => /\ stack[d].extractedSources = <<>>
             /\ stack[d].filteredTokens = stack[d].tokens
    /\ \A k \in DOMAIN out : out[k].tag = "a" => out[k].owner = RootId

\* C7: when an instance is rendered, its strip ends the output: the strip's
\* container, then one card per extracted record, in extraction order, each linking
\* to its record's url; none when no record was extracted.
C7_OneCardPerRecord ==
    (Depth > 0 /\ Self.pc = "done")
    => LET n == Len(Self.extractedSources)
           m == Len(out)
       IN  /\ m >= n + 1
           /\ out[m - n].tag = "strip"
           /\ out[m - n].owner = Self.id
           /\ \A k \in 1..n :
                 /\ out[m - n + k].tag = "a"
                 /\ out[m - n + k].owner = Self.id
                 /\ out[m - n + k].href = Self.extractedSources[k].url
           /\ Len(Self.cards) = n
           /\ Cardinality({k \in DOMAIN out : out[k].tag = "a" /\ out[k].owner = Self.id}) = n

C7_Witness ==
    /\ Rendered
    /\ Len(Root.extractedSources) >= 2
    /\ out[Len(out)].tag = "a"
    /\ out[Len(out)].href = UrlYouTube
    /\ out[Len(out) - 1].href = UrlPlain

\* C8: a card shows a title of more than 48 characters as its first 45 characters
\* followed by "...", and any other title unchanged; never more than 48 characters.
C8_TitleTruncation ==
    \A k \in DOMAIN out :
        out[k].tag = "a"
        => LET title == out[k].title
               shown == out[k].shown
           IN  /\ Len(title) > 48 => shown = SubSeq(title, 1, 45) \o <<".", ".", ".">>
               /\ Len(title) <= 48 => shown = title
               /\ Len(shown) <= 48

C8_Witness ==
    /\ Rendered
    /\ \E k \in DOMAIN out :
          /\ out[k].tag = "a"
          /\ Len(out[k].title) = 60
          /\ Len(out[k].shown) = 48

\* a reader of comma-separated lines in which every field is quoted and a quote
\* inside a field is written twice; ok is FALSE for any other text
RECURSIVE ReadCsv(_, _, _, _, _, _)
ReadCsv(s, k, mode, field, row, rows) ==
    IF k > Len(s)
    THEN [ok |-> mode = "after", rows |-> Append(rows, Append(row, field))]
    ELSE CASE mode = "start" ->
                IF s[k] = quote THEN ReadCsv(s, k + 1, "in", <<>>, row, rows)
                ELSE [ok |-> FALSE, rows |-> rows]
           [] mode = "in" ->
                IF s[k] # quote THEN ReadCsv(s, k + 1, "in", Append(field, s[k]), row, rows)
                ELSE IF k + 1 <= Len(s) /\ s[k + 1] = quote
                THEN ReadCsv(s, k + 2, "in", Append(field, quote), row, rows)
                ELSE ReadCsv(s, k + 1, "after", field, row, rows)
           [] OTHER ->
                IF s[k] = "," THEN ReadCsv(s, k + 1, "start", <<>>, Append(row, field), rows)
                ELSE IF s[k] = "\n"
                THEN ReadCsv(s, k + 1, "start", <<>>, <<>>, Append(rows, Append(row, field)))
                ELSE [ok |-> FALSE, rows |-> rows]

\* the texts a table holds: its header texts, then per body row the text of each
\* cell's child tokens, concatenated
TableTexts(token) ==
    <<[c \in DOMAIN token.header |-> token.header[c].text]>>
    \o [r \in DOMAIN token.rows |->
          [c \in DOMAIN token.rows[r] |->
              Flatten([n \in DOMAIN token.rows[r][c].tokens |->
                          IF Has(token.rows[r][c].tokens[n], "text")
                          THEN token.rows[r][c].tokens[n].text ELSE <<>>])]]

\* "A","B" newline "x,y","He said ""hi"""
ExampleCsv ==
    <<quote, "A", quote, ",", quote, "B", quote, "\n",
      quote, "x", ",", "y", quote, ",",
      quote, "H", "e", " ", "s", "a", "i", "d", " ", quote, quote, "h", "i", quote, quote, quote>>

\* C9: an exported file is named table-{id}-{tokenIdx}.csv after a rendered table
\* and holds the byte-order mark, then the header line and one line per body row,
\* every field quoted with its quotes doubled, fields joined by commas and lines
\* by newlines; a body field is the concatenated text of the cell's child tokens.
C9_CsvExport ==
    \A n \in DOMAIN saved :
        \E k \in DOMAIN out :
            /\ out[k].tag = "table"
            /\ saved[n].name = "table-" \o out[k].id \o "-" \o ToString(out[k].tokenIdx) \o ".csv"
            /\ Len(saved[n].content) >= 1
            /\ saved[n].content[1] = "\\uFEFF"
            /\ LET read == ReadCsv(Tail(saved[n].content), 1, "start", <<>>, <<>>, <<>>)
               IN  /\ read.ok
                   /\ read.rows = TableTexts(out[k].token)
                   /\ Len(read.rows) = 1 + Len(out[k].token.rows)
            /\ (/\ TableTexts(out[k].token)
                     = << <<<<"A">>, <<"B">>>>, <<<<"x", ",", "y">>, HeQuoted>> >>)
               => Tail(saved[n].content) = ExampleCsv

\* the table of the example was exported
C9_Witness ==
    /\ saved # <<>>
    /\ Len(tokens) = 1
    /\ tokens[1].type = "table"
    /\ TableTexts(tokens[1]) = << <<<<"A">>, <<"B">>>>, <<<<"x", ",", "y">>, HeQuoted>> >>
    /\ saved[1].content = <<"\\uFEFF">> \o ExampleCsv
    /\ saved[1].name = "table-msg-0.csv"

\* C10: an ordered list is rendered with numbering beginning at its start index,
\* 0 included, and at 1 when the start index is unset; an unordered list has no
\* numeric start.
C10_OrderedListStart ==
    \A k \in DOMAIN out :
        /\ out[k].tag = "ol"
           => out[k].start = IF Has(out[k].token, "start") /\ out[k].token.start # Unset
                             THEN out[k].token.start[1] ELSE 1
        /\ out[k].tag = "ul" => ~Has(out[k], "start")

\* the kinds the dispatch of lines 177-411 has no branch for
IsUnknown(token) == token.type \notin (KnownLeaf \cup {"list", "details"})
\* what token n of the instance f put into the output, in order
OwnedBy(f, n) == SelectSeq(out, LAMBDA e : e.owner = f.id /\ e.tokenIdx = n)
\* the elements that open a token whose branch mounts child instances
Opening == {"ol", "ul", "blockquote", "Collapsible"}

\* C11: a token of a kind outside the dispatch renders nothing (a diagnostic log
\* only), and every other token of the filtered sequence is rendered exactly once,
\* in sequence order, before and after it.
C11_UnknownTokenSilent ==
    (Depth > 0 /\ Self.pc = "done")
    => LET f == Self
       IN  /\ \A n \in 0..(Len(f.filteredTokens) - 1) :
                 LET token == f.filteredTokens[n + 1]
                     at == [f EXCEPT !.tokenIdx = n]
                 IN  IF IsUnknown(token)
                     THEN /\ OwnedBy(f, n) = <<>>
                          /\ Cardinality({k \in DOMAIN console :
                                 console[k] = [msg |-> "Unknown token", id |-> f.id,
                                               tokenIdx |-> n]}) = 1
                     ELSE IF Recurses(token)
                     THEN Cardinality({k \in DOMAIN OwnedBy(f, n) :
                                          OwnedBy(f, n)[k].tag \in Opening}) = 1
                     ELSE OwnedBy(f, n) = PlaceAll(at, leafElements(at, token))
           /\ \A j, k \in DOMAIN out :
                 (j < k /\ out[j].owner = f.id /\ out[k].owner = f.id)
                 => out[j].tokenIdx <= out[k].tokenIdx

\* the link tokens of a list item: its own, then those of its text or paragraph
\* tokens, where marked puts the links of an item
LinksOf(item) ==
    LET toks == IF Has(item, "tokens") THEN item.tokens ELSE <<>>
    IN  SelectSeq(toks, LAMBDA t : t.type = "link")
        \o Flatten([k \in DOMAIN toks |->
               IF toks[k].type \in {"text", "paragraph"} /\ Has(toks[k], "tokens")
               THEN SelectSeq(toks[k].tokens, LAMBDA t : t.type = "link")
               ELSE <<>>])
\* the ways of reading s as [title](url), title and url not empty
PatternParts(s) ==
    {<<SubSeq(s, 2, k - 1), SubSeq(s, k + 2, Len(s) - 1)>> :
        k \in {j \in 3..(Len(s) - 3) :
                  s[1] = "[" /\ s[j] = "]" /\ s[j + 1] = "(" /\ s[Len(s)] = ")"}}

\* C12: each item of a list after a trigger paragraph gives at most one record:
\* that of its link token when it has one, otherwise that of its raw text when the
\* text reads [title](url), otherwise none; the list's records are its items'
\* records in item order, whatever items are skipped.
C12_ItemRecords ==
    \A d \in DOMAIN stack :
        LET s == stack[d].tokens
        IN  \A p \in Pairs(s) :
                LET items == s[p + 1].items
                    got == [n \in DOMAIN items |-> itemSources(items[n])]
                IN  /\ \A n \in DOMAIN items :
                          LET links == LinksOf(items[n])
                              parts == IF Has(items[n], "text") THEN PatternParts(items[n].text)
                                       ELSE {}
                          IN  /\ Len(got[n]) <= 1
                              /\ links # <<>>
                                 => got[n] = <<[title |-> links[1].text, url |-> links[1].href]>>
                              /\ (links = <<>> /\ parts # {})
                                 => /\ Len(got[n]) = 1
                                    /\ <<got[n][1].title, got[n][1].url>> \in parts
                              /\ (links = <<>> /\ parts = {}) => got[n] = <<>>
                    /\ extractAllSourcesFromTokens(<<s[p], s[p + 1]>>) = Flatten(got)

\* C13: every header and body cell of column c of a rendered table has the text
\* alignment of the table token's entry for c, and no alignment of its own when
\* that entry is unset.
C13_CellAlignment ==
    \A k \in DOMAIN out :
        out[k].tag = "table"
        => \A n \in DOMAIN out[k].cells :
              LET cell == out[k].cells[n]
                  align == out[k].token.align[cell.col + 1]
              IN  /\ align # "null" => cell.style = "text-align: " \o align
                  /\ align = "null" => cell.style = ""

\* the identifiers an element of the output hands to its child renders and child
\* components: a table's to its cells, any other element's to its one child
HandedIds(e) ==
    IF e.tag = "table" THEN [c \in DOMAIN e.cells |-> e.cells[c].inline]
    ELSE IF Has(e, "inline") THEN <<e.inline>>
    ELSE IF Has(e, "id") THEN <<e.id>>
    ELSE <<>>
AllHandedIds == Flatten([k \in DOMAIN out |-> HandedIds(out[k])])

\* C14: within one render of a message no two tokens or cells, at any depth and
\* of any kind, are handed the same identifier.
C14_IdsDistinct ==
    \A j, k \in DOMAIN AllHandedIds : j # k => AllHandedIds[j] # AllHandedIds[k]

\* the token whose branch mounted the instance at depth d > 1
ParentToken(d) ==
    LET f == stack[d - 1]
    IN  IF f.pc = "items" THEN f.filteredTokens[f.tokenIdx + 1] ELSE f.filteredTokens[f.tokenIdx]
\* a text token is wrapped in a paragraph exactly when its render has top = true
TextWrappedIffTop ==
    \A k \in DOMAIN out : out[k].kind = "text" => (out[k].tag = "p" <=> out[k].top)

\* C15 as stated: the message-level render has top = true and every sub-render
\* top = false, but that of a details body; a text token is wrapped in a paragraph
\* exactly when its render has top = true.
C15_SubRendersNotTop ==
    /\ Depth > 0 => Root.top
    /\ \A d \in 2..Depth : stack[d].top <=> ParentToken(d).type = "details"
    /\ TextWrappedIffTop

\* C15 as amended: the sub-renders of a blockquote's children and of a details
\* body have top = true (the default), that of a list item has the list's loose
\* flag; the wrapping of text follows top.
C15_TopDefaultOrLoose ==
    /\ Depth > 0 => Root.top
    /\ \A d \in 2..Depth :
          stack[d].top <=> (\/ ParentToken(d).type \in {"blockquote", "details"}
                            \/ ParentToken(d).type = "list" /\ ParentToken(d).loose)
    /\ TextWrappedIffTop

\* the text of an item of a loose list was rendered wrapped, and the sub-render of
\* a blockquote's children is running with top = true
C15_Witness ==
    /\ Depth = 2
    /\ ParentToken(2).type = "blockquote"
    /\ stack[2].top
    /\ stack[2].pc = "render"
    /\ \E k \in DOMAIN out :
          out[k].kind = "text" /\ out[k].owner # RootId /\ out[k].top /\ out[k].tag = "p"

\* the kinds whose branch puts an element into the output whatever the token holds
AlwaysVisible == {"hr", "heading", "table", "blockquote", "list", "details", "html",
                  "iframe", "paragraph", "text", "space"}

\* C16: an instance whose sequence yields no record renders the sequence itself,
\* every token in order; it renders the filtered sequence only when at least one
\* record was extracted.  Stated of the instance at work, which every instance is
\* from its mounting to its end but while its children render.
C16_NoRecordNoRemoval ==
    \A d \in {Depth} \cap DOMAIN stack :
        LET f == stack[d]
        IN  Updated(f)
            => /\ f.extractedSources = extractAllSourcesFromTokens(f.tokens)
               /\ Len(f.extractedSources) = 0 => f.filteredTokens = f.tokens
               /\ f.filteredTokens # f.tokens
                  => /\ Len(f.extractedSources) > 0
                     /\ f.filteredTokens = filterOutAllSourcesSections(f.tokens)
               /\ (d = Depth /\ f.pc = "done" /\ Len(f.extractedSources) = 0)
                  => /\ \A n \in 0..(Len(f.tokens) - 1) :
                           /\ \A k \in DOMAIN OwnedBy(f, n) :
                                 OwnedBy(f, n)[k].kind = f.tokens[n + 1].type
                           /\ f.tokens[n + 1].type \in AlwaysVisible => OwnedBy(f, n) # <<>>
                     /\ \A j, k \in DOMAIN out :
                           (j < k /\ out[j].owner = f.id /\ out[k].owner = f.id)
                           => out[j].tokenIdx <= out[k].tokenIdx

\* a message the filter would shorten, rendered whole because it yields no record
C16_Witness ==
    /\ Rendered
    /\ Root.extractedSources = <<>>
    /\ Len(filterOutAllSourcesSections(tokens)) < Len(tokens)
    /\ Root.filteredTokens = tokens
    /\ \E p \in EmptyPairs(tokens) :
          /\ OwnedBy(Root, p - 1) # <<>>
          /\ OwnedBy(Root, p) # <<>>
    /\ \E p \in Lone(tokens) : OwnedBy(Root, p - 1) # <<>>

\* the 1-based positions of s the filter scan drops: the tokens it passes without
\* pushing them, and the lists it skips
DroppedByFilter(s) ==
    LET v == filterVisits(s, 1, <<>>)
    IN  {v[k].at + 1 : k \in {j \in DOMAIN v : ~v[j].kept}}
        \cup {v[k].at + 2 : k \in {j \in DOMAIN v : v[j].pair}}
\* the 1-based positions of the lists whose items the extraction scan reads
ReadByExtract(s) ==
    LET v == extractVisits(s, 1, <<>>)
    IN  {v[k].at + 2 : k \in {j \in DOMAIN v : v[j].pair}}

\* C17: on one sequence the two scans take the same cursor positions and
\* recognise the same pairs; the items of a list are read by the extraction
\* scan iff the filter scan drops the list and the trigger paragraph before it, so
\* every record comes from a list the filter removes.  Stated of the sequence of
\* every instance, as the instance is mounted.
C17_ScansAgree ==
    \A d \in {k \in DOMAIN stack : ~Updated(stack[k])} :
        LET s == stack[d].tokens
            ev == extractVisits(s, 1, <<>>)
            fv == filterVisits(s, 1, <<>>)
        IN  /\ Len(ev) = Len(fv)
            /\ \A k \in DOMAIN ev : ev[k].at = fv[k].at /\ ev[k].pair = fv[k].pair
            /\ {ev[k].at + 1 : k \in {j \in DOMAIN ev : ev[j].pair}} = Pairs(s)
            /\ \A n \in DOMAIN s :
                  s[n].type = "list"
                  => (n \in ReadByExtract(s)
                      <=> (n > 1 /\ {n - 1, n} \subseteq DroppedByFilter(s)
                           /\ s[n - 1] \in TriggerParagraphs))
            /\ extractAllSourcesFromTokens(s)
                  = Flatten([k \in DOMAIN ev |->
                               IF ev[k].pair THEN listSources(s[ev[k].at + 2].items) ELSE <<>>])
            /\ filterOutAllSourcesSections(s) = Without(s, DroppedByFilter(s))
            /\ extractAllSourcesFromTokens(filterOutAllSourcesSections(s)) = <<>>

\* two pairs and a trigger paragraph without list between them, all scanned
C17_Witness ==
    /\ Rendered
    /\ Cardinality(Pairs(tokens)) >= 2
    /\ Lone(tokens) # {}
    /\ Len(extractVisits(tokens, 1, <<>>)) = Len(tokens) - Cardinality(Pairs(tokens))
    /\ Len(Root.extractedSources) > 0
    /\ ReadByExtract(tokens) \subseteq DroppedByFilter(tokens)
    /\ Root.filteredTokens = <<>>
====
